---- MODULE Spec2Model ----
(***************************************************************************)
(* cdumay_yaml: conversion of serde_yaml failures into typed errors.       *)
(*                                                                         *)
(* The crate holds one error kind (YamlData), one error family (DataError),*)
(* the converter YamlErrorConverter::convert and the macro                 *)
(* convert_yaml_result! with its three call shapes.  A state of the model  *)
(* is the last call a caller made (entry point and arguments), what the    *)
(* call returned, what the caller still holds afterwards, and one earlier  *)
(* conversion kept as a history variable.                                  *)
(***************************************************************************)
EXTENDS Naturals, Sequences, FiniteSets, TLC

VARIABLES
    op,             \* entry point of the last call, "none" before any call
    result,         \* the raw outcome handed to the call: Ok(v) or Err(e)
    text,           \* the message argument: None or Some(t)
    context,        \* the context argument: Absent or Given(map)
    ret,            \* what the call returned
    converterRan,   \* whether the call reached the Converter
    callerContext,  \* the caller's own map after the call: Live(map) or Gone
    callerError,    \* the caller's raw error after the call: Live(e) or Gone
    remembered      \* history variable: one earlier conversion, or NoneYet

vars == <<op, result, text, context, ret, converterRan, callerContext,
          callerError, remembered>>

(***************************************************************************)
(* Bounds and input domains.                                               *)
(***************************************************************************)
\* number of distinct raw serde_yaml failures
NumRawErrors == 2

\* number of distinct success values of the wrapped computation
NumOkValues == 2

RawErrors == 1..NumRawErrors

OkValues == 1..NumOkValues

\* messages a caller supplies (the tests' message, and the empty string)
Texts == {"", "Custom YAML parsing failed"}

\* context keys a caller uses ("file" as in the tests, and "origin" itself)
Keys == {"file", "origin"}

\* context values a caller stores
Vals == {"config.yaml"}

(***************************************************************************)
(* Values: Option, Result, maps.                                           *)
(***************************************************************************)
None == [some |-> FALSE]

Some(t) == [some |-> TRUE, val |-> t]

Ok(v) == [tag |-> "Ok", value |-> v]

Err(e) == [tag |-> "Err", error |-> e]

EmptyMap == [k \in {} |-> ""]

\* BTreeMap::insert: the key is bound to the new value, replacing an old one
MapInsert(m, k, v) == [x \in (DOMAIN m) \cup {k} |-> IF x = k THEN v ELSE m[x]]

Maps == UNION {[D -> Vals] : D \in SUBSET Keys}

Absent == [given |-> FALSE]

Given(m) == [given |-> TRUE, map |-> m]

Gone == [live |-> FALSE]

Live(x) == [live |-> TRUE, val |-> x]

NoneYet == [set |-> FALSE]

\* Display of a raw serde_yaml::Error (err.to_string()): a text of its own
\* for each failure, different from every caller-side string
DisplayOf(e) == "yaml failure #" \o ToString(e)

(***************************************************************************)
(* errors.rs: the kind, the family, the converter.                         *)
(***************************************************************************)
\* define_kinds! { YamlData = (400, "Invalid YAML data") }
YamlData == [status |-> 400, description |-> "Invalid YAML data"]

\* define_errors! { DataError = YamlData }; DataError::new()
DataError == [name |-> "DataError", kind |-> YamlData,
              message |-> YamlData.description, details |-> EmptyMap]

\* faulty variant: the converter builds an error of another kind when the message is empty
ConvertOtherKind(err, t, ctx) ==
    [DataError EXCEPT !.message = t, !.details = ctx,
                      !.kind = IF t = "" THEN [status |-> 500, description |-> "Internal error"]
                               ELSE YamlData]

\* faulty variant: the converter keeps the family's default message
ConvertNoMessage(err, t, ctx) == [DataError EXCEPT !.details = ctx]

\* faulty variant: the converter does not attach the context
ConvertNoDetails(err, t, ctx) == [DataError EXCEPT !.message = t]

\* faulty variant: the converter itself records the raw error under "origin"
ConvertAddsOrigin(err, t, ctx) ==
    [DataError EXCEPT !.message = t,
                      !.details = MapInsert(ctx, "origin", DisplayOf(err))]

\* faulty variant: the converter attaches only the "origin" entry of the context
ConvertDropsOthers(err, t, ctx) ==
    [DataError EXCEPT !.message = t,
                      !.details = [k \in {x \in DOMAIN ctx : x = "origin"} |-> ctx[k]]]

\* faulty variant: the first conversion of the process differs from the later ones
ConvertFirstDiffers(err, t, ctx) ==
    [DataError EXCEPT !.message = t, !.details = ctx,
                      !.name = IF op = "none" THEN "DataError#0" ELSE "DataError"]

\* YamlErrorConverter::convert(_, text, context)
Convert(err, t, ctx) == [DataError EXCEPT !.message = t, !.details = ctx]

\* ErrorConverter::convert_error(err, text, context), the trait's provided
\* method: a supplied message is used as it is and the raw error's rendering
\* is recorded under "origin"; without one the rendering is the message and
\* the context is passed on as it is
ConvertError(err, t, ctx) ==
    IF t.some
    THEN Convert(err, t.val, MapInsert(ctx, "origin", DisplayOf(err)))
    ELSE Convert(err, DisplayOf(err), ctx)

(***************************************************************************)
(* macros.rs: convert_yaml_result!                                         *)
(***************************************************************************)
\* faulty variant: the conversion is evaluated before the result is looked at
\* (as with `.or(Err(..))`), so the Converter runs on a success too
MapErrEager(r, f) ==
    [out |-> IF r.tag = "Err" THEN Err(f[r.error]) ELSE r, ran |-> TRUE]

\* Result::map_err(|err| ...), the closure given as the function f: an Ok
\* passes through and the closure does not run; an Err's payload is replaced
\* by the closure's value
MapErr(r, f) ==
    IF r.tag = "Err"
    THEN [out |-> Err(f[r.error]), ran |-> TRUE]
    ELSE [out |-> r, ran |-> FALSE]

\* faulty variant: the one-argument shape passes an empty message
ConvertYamlResult1Empty(r) ==
    MapErr(r, [err \in RawErrors |-> ConvertError(err, Some(""), EmptyMap)])

\* convert_yaml_result!(result)
ConvertYamlResult1(r) ==
    MapErr(r, [err \in RawErrors |-> ConvertError(err, None, EmptyMap)])

\* faulty variant: the two-argument shape forgets the context
ConvertYamlResult2NoContext(r, ctx) ==
    MapErr(r, [err \in RawErrors |-> ConvertError(err, None, EmptyMap)])

\* convert_yaml_result!(result, context)
ConvertYamlResult2(r, ctx) ==
    MapErr(r, [err \in RawErrors |-> ConvertError(err, None, ctx)])

\* convert_yaml_result!(result, context, text); text.to_string() of a string
\* is a string of the same characters
ConvertYamlResult3(r, ctx, t) ==
    MapErr(r, [err \in RawErrors |-> ConvertError(err, Some(t), ctx)])

(***************************************************************************)
(* The caller's side of a call.                                            *)
(***************************************************************************)
\* faulty variant: the callee works on the caller's own map
CallerMapShared(callerMap, calleeMap) == calleeMap

\* `context: BTreeMap<..>` is a by-value parameter: what the callee does to
\* its map (calleeMap) does not reach the map the caller cloned it from
CallerMapAfter(callerMap, calleeMap) == callerMap

\* the caller passes `context.clone()` (keep) or moves `context` into the call
CallerContextAfter(keep, ctx, e) ==
    IF keep THEN Live(CallerMapAfter(ctx, e.details)) ELSE Gone

\* the conversion the state holds, as an entry of the history
Snapshot == [set |-> TRUE, op |-> op, result |-> result, text |-> text,
             context |-> context, ret |-> ret]

Remember(keepOld) ==
    remembered' = IF converterRan /\ ~keepOld THEN Snapshot ELSE remembered

(***************************************************************************)
(* State machine.                                                          *)
(***************************************************************************)
Init ==
    /\ op = "none"
    /\ result = Ok(1)
    /\ text = None
    /\ context = Absent
    /\ ret = Ok(1)
    /\ converterRan = FALSE
    /\ callerContext = Gone
    /\ callerError = Gone
    /\ remembered = NoneYet

\* YamlErrorConverter::convert(&err, text, context)
CallConvert ==
    \E e \in RawErrors, t \in Texts, ctx \in Maps, keep, keepOld \in BOOLEAN :
        /\ op' = "convert"
        /\ result' = Err(e)
        /\ text' = Some(t)
        /\ context' = Given(ctx)
        /\ ret' = Convert(e, t, ctx)
        /\ converterRan' = TRUE
        /\ callerContext' = CallerContextAfter(keep, ctx, Convert(e, t, ctx))
        /\ callerError' = Live(e)
        /\ Remember(keepOld)

\* YamlErrorConverter::convert_error(&err, text, context)
CallConvertError ==
    \E e \in RawErrors, t \in {None} \cup {Some(x) : x \in Texts}, ctx \in Maps,
       keep, keepOld \in BOOLEAN :
        /\ op' = "convert_error"
        /\ result' = Err(e)
        /\ text' = t
        /\ context' = Given(ctx)
        /\ ret' = ConvertError(e, t, ctx)
        /\ converterRan' = TRUE
        /\ callerContext' = CallerContextAfter(keep, ctx, ConvertError(e, t, ctx))
        /\ callerError' = Live(e)
        /\ Remember(keepOld)

Results == {Ok(v) : v \in OkValues} \cup {Err(e) : e \in RawErrors}

\* the macro's result and what is left with the caller: the wrapped result is
\* consumed by map_err
MacroCall(name, r, t, ctx, m, callerCtx) ==
    /\ op' = name
    /\ result' = r
    /\ text' = t
    /\ context' = ctx
    /\ ret' = m.out
    /\ converterRan' = m.ran
    /\ callerContext' = callerCtx
    /\ callerError' = Gone

\* convert_yaml_result!(result)
CallMacro1 ==
    \E r \in Results, keepOld \in BOOLEAN :
        /\ MacroCall("macro1", r, None, Absent, ConvertYamlResult1(r), Gone)
        /\ Remember(keepOld)

\* convert_yaml_result!(result, context)
CallMacro2 ==
    \E r \in Results, ctx \in Maps, keep, keepOld \in BOOLEAN :
        LET m == ConvertYamlResult2(r, ctx) IN
        /\ MacroCall("macro2", r, None, Given(ctx), m,
                     IF m.ran THEN CallerContextAfter(keep, ctx, m.out.error)
                     ELSE IF keep THEN Live(ctx) ELSE Gone)
        /\ Remember(keepOld)

\* convert_yaml_result!(result, context, text)
CallMacro3 ==
    \E r \in Results, ctx \in Maps, t \in Texts, keep, keepOld \in BOOLEAN :
        LET m == ConvertYamlResult3(r, ctx, t) IN
        /\ MacroCall("macro3", r, Some(t), Given(ctx), m,
                     IF m.ran THEN CallerContextAfter(keep, ctx, m.out.error)
                     ELSE IF keep THEN Live(ctx) ELSE Gone)
        /\ Remember(keepOld)

Next ==
    \/ CallConvert
    \/ CallConvertError
    \/ CallMacro1
    \/ CallMacro2
    \/ CallMacro3

Spec == Init /\ [][Next]_vars

(***************************************************************************)
(* Properties.                                                             *)
(***************************************************************************)
Direct == {"convert", "convert_error"}

Macros == {"macro1", "macro2", "macro3"}

\* the last call turned a raw failure into a typed error
Converted == op # "none" /\ converterRan

\* the typed error the last call produced
Produced == IF op \in Direct THEN ret ELSE ret.error

\* the context the last call handed to the Converter
Supplied == IF context.given THEN context.map ELSE EmptyMap

\* C1: every call on a raw failure, through any entry point, with any message
\* and any context, produces a typed error of the family DataError whose
\* status is 400 and whose kind description is "Invalid YAML data"
C1_AlwaysInvalidYamlData ==
    (op # "none" /\ result.tag = "Err") =>
        /\ converterRan
        /\ op \in Macros => ret.tag = "Err"
        /\ Produced.name = "DataError"
        /\ Produced.kind.status = 400
        /\ Produced.kind.description = "Invalid YAML data"

C1_Witness ==
    /\ Converted /\ op = "macro3" /\ text = Some("")
    /\ DOMAIN Supplied = Keys
    /\ Produced.kind.status = 400

\* C2: with a message supplied to convert_error or to the three-argument
\* macro form, the typed error's message is exactly that message
C2_SuppliedMessageKept ==
    (Converted /\ op \in {"convert_error", "macro3"} /\ text.some) =>
        Produced.message = text.val

C2_Witness ==
    /\ Converted /\ op = "macro3" /\ text = Some("Custom YAML parsing failed")
    /\ Produced.message = "Custom YAML parsing failed"

\* C3: with no message (convert_error with None, the one- and two-argument
\* macro forms), the typed error's message is the raw failure's rendering
C3_DefaultMessageIsRendering ==
    (Converted /\ op \in {"convert_error", "macro1", "macro2"} /\ ~text.some) =>
        Produced.message = DisplayOf(result.error)

C3_Witness ==
    /\ Converted /\ op = "macro1" /\ result = Err(2)
    /\ Produced.message = DisplayOf(2)

\* C4: in each macro shape an Ok(v) comes back as the same Ok(v) and the
\* Converter does not run; the Converter runs only on a failure, and the
\* macro's result is then a failure
C4_SuccessPassesThrough ==
    op \in Macros =>
        /\ result.tag = "Ok" => (ret = result /\ ~converterRan)
        /\ converterRan => (result.tag = "Err" /\ ret.tag = "Err")

C4_Witness ==
    /\ op = "macro3" /\ result = Ok(2) /\ ret = Ok(2) /\ ~converterRan
    /\ context.map # EmptyMap

\* C5: on a failure each macro shape returns what convert_error returns for
\* the default-filled arguments: (result) -> None and the empty map,
\* (result, context) -> None and the context, (result, context, message) ->
\* Some(message) and the context
C5_MacroIsConvertError ==
    (op \in Macros /\ result.tag = "Err") =>
        ret = Err(ConvertError(result.error,
                               IF op = "macro3" THEN Some(text.val) ELSE None,
                               IF op = "macro1" THEN EmptyMap ELSE context.map))

C5_Witness ==
    /\ op = "macro2" /\ result = Err(1) /\ DOMAIN context.map = {"file"}
    /\ ret.error.details = context.map

\* C6: with no message, the details are exactly the supplied context, nothing
\* added; with an empty context they are empty
C6_NoMessageDetailsAreContext ==
    (Converted /\ op \in {"convert_error", "macro1", "macro2"} /\ ~text.some) =>
        Produced.details = Supplied

C6_Witness ==
    /\ Converted /\ op = "convert_error" /\ ~text.some
    /\ DOMAIN Supplied = {"file"}
    /\ "origin" \notin DOMAIN Produced.details

\* C7 as stated: with a message, every caller-supplied entry is in the details
\* unchanged, "origin" is there and records the raw failure's rendering, and
\* no other key is added
C7_Original ==
    (Converted /\ op \in {"convert_error", "macro3"} /\ text.some) =>
        /\ \A k \in DOMAIN Supplied :
              k \in DOMAIN Produced.details /\ Produced.details[k] = Supplied[k]
        /\ "origin" \in DOMAIN Produced.details
        /\ Produced.details["origin"] = DisplayOf(result.error)
        /\ DOMAIN Produced.details = DOMAIN Supplied \cup {"origin"}

\* C7 (amended): with a message, every caller-supplied entry under a key other
\* than "origin" is in the details unchanged, "origin" is bound to the raw
\* failure's rendering (replacing a caller's own "origin"), and no other key
\* is added
C7_OriginAugmented ==
    (Converted /\ op \in {"convert_error", "macro3"} /\ text.some) =>
        /\ \A k \in DOMAIN Supplied \ {"origin"} :
              k \in DOMAIN Produced.details /\ Produced.details[k] = Supplied[k]
        /\ "origin" \in DOMAIN Produced.details
        /\ Produced.details["origin"] = DisplayOf(result.error)
        /\ DOMAIN Produced.details = DOMAIN Supplied \cup {"origin"}

C7_Witness ==
    /\ Converted /\ op = "convert_error" /\ text.some
    /\ DOMAIN Supplied = Keys
    /\ Produced.details["file"] = "config.yaml"
    /\ Produced.details["origin"] # Supplied["origin"]

\* C8: through every entry point, with or without a message, every key of the
\* supplied context is a key of the details
C8_ContextKeysKept ==
    Converted => DOMAIN Supplied \subseteq DOMAIN Produced.details

C8_Witness ==
    /\ Converted /\ op = "convert" /\ DOMAIN Supplied = Keys
    /\ DOMAIN Produced.details = Keys

====
